---- MODULE Spec2Model ----
(***************************************************************************)
(* gphotosdl: a browser session is started and checked for a signed-in    *)
(* Google Photos page (startBrowser), then a web server answers           *)
(* GET /id/{photoID} by driving one browser tab per request (Download)    *)
(* behind a mutex and serving, then deleting, the downloaded file (getID).*)
(*                                                                         *)
(* src/main.go holds two variants of the program, one after the other:    *)
(* variant 1 is lines 1-423, variant 2 is lines 424-882.  The variable    *)
(* `variant` says which one runs; each action follows the code of the     *)
(* running variant.                                                        *)
(***************************************************************************)
EXTENDS Integers, Sequences, FiniteSets, TLC

VARIABLES
    variant,        \* 1: main.go lines 1-423, 2: main.go lines 424-882
    login,          \* the -login flag
    mainPc,         \* position of main / New / startBrowser
    try,            \* startBrowser: loop variable
    authenticated,  \* startBrowser: local flag
    polls,          \* number of g.page.Info() calls of the running startBrowser
    matchedAt,      \* poll number of the first Info() whose URL matched (0: none)
    infoErrs,       \* number of failed g.page.Info() calls of the running startBrowser
    loginMsgs,      \* "Please log in" messages logged by the running startBrowser
    notAuthMsgs,    \* "Not authenticated. Trying for 60 seconds" messages logged by it
    startErr,       \* error returned by startBrowser / New
    serverUp,       \* the handlers are registered and the listener runs
    tabs,           \* open browser tabs
    nextTab,        \* next tab handle the browser hands out
    gPage,          \* g.page, the home tab (0: not opened)
    mu,             \* g.mu: 0 free, else the request holding it
    pc,             \* per request: position in getID / Download
    photoID,        \* per request: r.PathValue("photoID")
    page,           \* per request: Download's local `page` (0: none)
    filter,         \* per request: the EachEvent network filter is registered
    waiter,         \* per request: the download waiter is registered
    netResponse,    \* per request: Download's local `netResponse`
    waitedTab,      \* per request: the tab WaitLoad was called on (0: none)
    guid,           \* per request: GUID of the download event (0: none)
    retPath,        \* per request: path returned by Download
    retErr,         \* per request: error returned by Download
    status,         \* per request: HTTP status written (0: none yet)
    body,           \* per request: file streamed to the client (0: none)
    removed,        \* per request: the path os.Remove was called on and removed
    files,          \* names of the files in downloadDir
    nextGuid        \* next download GUID the browser hands out

authVars == <<try, authenticated, polls, matchedAt, infoErrs, loginMsgs, notAuthMsgs>>
reqVars  == <<pc, photoID, page, filter, waiter, netResponse, waitedTab, guid,
              retPath, retErr, status, body, removed>>
vars == <<variant, login, mainPc, try, authenticated, polls, matchedAt, infoErrs,
          loginMsgs, notAuthMsgs, startErr,
          serverUp, tabs, nextTab, gPage, mu, pc, photoID, page, filter, waiter,
          netResponse, waitedTab, guid, retPath, retErr, status, body, removed,
          files, nextGuid>>

-----------------------------------------------------------------------------
(* Bounds of the model *)

\* number of inbound GET /id/{photoID} requests
NumReqs == 2
\* polls after which the model stops following the unbounded -login loop
MaxLoginPolls == 62

Reqs == 1..NumReqs
PhotoIDs == {"idA", "idB"}
\* the identifier request r can carry: identifiers are opaque to the program, so
\* request 1 carries the first one and the others carry the same or another one
PhotoIDsOf(r) == IF r = 1 THEN {"idA"} ELSE PhotoIDs

-----------------------------------------------------------------------------
(* Program constants.  A URL is the sequence of its host and path segments, *)
(* so that string prefix and string equality are computed, not assumed.     *)

MaxTries == 60
StatusOK == 200
StatusInternalServerError == 500
StatusNotFound == 404

gphotosURL == <<"photos.google.com">>
loginURL == IF variant = 1 THEN <<"accounts.google.com">>
                           ELSE <<"photos.google.com", "login">>
gphotoURLReal == <<"photos.google.com", "photo">>
gphotoURL == IF variant = 1 THEN <<"photos.google.com", "photo">>
                            ELSE <<"photos.google.com", "lr", "photo">>
downloadDir == "gphotosdl-tmp"

\* strings.HasPrefix
HasPrefix(s, prefix) ==
    /\ Len(s) >= Len(prefix)
    /\ SubSeq(s, 1, Len(prefix)) = prefix

\* the file name alone, without the directory
JoinNoDir(dir, name) == <<name>>

\* filepath.Join(dir, name)
Join(dir, name) == <<dir, name>>

\* os.Stat(path) succeeds
FileExists(path) == Len(path) = 2 /\ path[1] = downloadDir /\ path[2] \in files

(* Errors are chains of layers, outermost first: fmt.Errorf("...: %w", e)   *)
(* puts a layer in front of e.  A layer of kind "httpError" carries a code. *)
NilErr == <<>>
ErrorsNew(msg) == <<[kind |-> "plain", msg |-> msg, code |-> 0]>>
HttpError(code) == <<[kind |-> "httpError", msg |-> "HTTP Error", code |-> code]>>
Errorf(msg, e) == <<[kind |-> "plain", msg |-> msg, code |-> 0]>> \o e

\* errors.As(err, &h) for h of type httpError: the first httpError of the chain
RECURSIVE ErrorsAs(_)
ErrorsAs(e) ==
    IF e = <<>> THEN 0
    ELSE IF Head(e).kind = "httpError" THEN Head(e).code
    ELSE ErrorsAs(Tail(e))

\* URLs the home tab can be at when polled
HomeURLs == { gphotosURL,
              <<"photos.google.com", "u", "0">>,
              <<"photos.google.com", "login">>,
              <<"accounts.google.com">> }

\* statuses a network response can carry
Statuses == {200, 403, 404}

NoResponse == [recv |-> FALSE, url |-> <<>>, status |-> 0]
NoPath == <<>>

-----------------------------------------------------------------------------
Init ==
    /\ variant \in {1, 2}
    /\ login \in BOOLEAN
    /\ mainPc = "launch"
    /\ try = 0
    /\ authenticated = FALSE
    /\ polls = 0
    /\ matchedAt = 0
    /\ infoErrs = 0
    /\ loginMsgs = 0
    /\ notAuthMsgs = 0
    /\ startErr = NilErr
    /\ serverUp = FALSE
    /\ tabs = {}
    /\ nextTab = 1
    /\ gPage = 0
    /\ mu = 0
    /\ pc = [r \in Reqs |-> "idle"]
    /\ photoID = [r \in Reqs |-> ""]
    /\ page = [r \in Reqs |-> 0]
    /\ filter = [r \in Reqs |-> FALSE]
    /\ waiter = [r \in Reqs |-> FALSE]
    /\ netResponse = [r \in Reqs |-> NoResponse]
    /\ waitedTab = [r \in Reqs |-> 0]
    /\ guid = [r \in Reqs |-> 0]
    /\ retPath = [r \in Reqs |-> NoPath]
    /\ retErr = [r \in Reqs |-> NilErr]
    /\ status = [r \in Reqs |-> 0]
    /\ body = [r \in Reqs |-> 0]
    /\ removed = [r \in Reqs |-> NoPath]
    /\ files = {}
    /\ nextGuid = 1

-----------------------------------------------------------------------------
(* startBrowser *)

\* startBrowser returns err: its locals go out of scope
StartBrowserReturns(err) ==
    /\ mainPc' = "New"
    /\ startErr' = err
    /\ try' = 0
    /\ polls' = 0
    /\ matchedAt' = 0
    /\ infoErrs' = 0
    /\ loginMsgs' = 0
    /\ notAuthMsgs' = 0

\* l.Launch()
Launch ==
    /\ mainPc = "launch"
    /\ \/ /\ mainPc' = "connect"
          /\ UNCHANGED <<startErr, authVars>>
       \/ /\ StartBrowserReturns(Errorf("browser launch", ErrorsNew("launch")))
          /\ UNCHANGED authenticated
    /\ UNCHANGED <<variant, login, serverUp, tabs, nextTab, gPage, mu, reqVars,
                   files, nextGuid>>

\* g.browser.Connect()
Connect ==
    /\ mainPc = "connect"
    /\ \/ /\ mainPc' = "page"
          /\ UNCHANGED <<startErr, authVars>>
       \/ /\ StartBrowserReturns(Errorf("failed to connect to browser", ErrorsNew("connect")))
          /\ UNCHANGED authenticated
    /\ UNCHANGED <<variant, login, serverUp, tabs, nextTab, gPage, mu, reqVars,
                   files, nextGuid>>

\* g.page, err = g.browser.Page(proto.TargetCreateTarget{URL: startURL})
OpenHomePage ==
    /\ mainPc = "page"
    /\ \/ /\ mainPc' = "waitLoad"
          /\ gPage' = nextTab
          /\ tabs' = tabs \cup {nextTab}
          /\ nextTab' = nextTab + 1
          /\ UNCHANGED <<startErr, authVars>>
       \/ /\ StartBrowserReturns(Errorf("couldn't open initial URL", ErrorsNew("page")))
          /\ UNCHANGED <<authenticated, gPage, tabs, nextTab>>
    /\ UNCHANGED <<variant, login, serverUp, mu, reqVars, files, nextGuid>>

\* g.page.WaitLoad(); authenticated := false; if *login { slog.Info(...) }
InitialWaitLoad ==
    /\ mainPc = "waitLoad"
    /\ \/ /\ mainPc' = "loop"
          /\ loginMsgs' = IF login THEN loginMsgs + 1 ELSE loginMsgs
          /\ UNCHANGED <<startErr, try, authenticated, polls, matchedAt, infoErrs,
                         notAuthMsgs>>
       \/ /\ StartBrowserReturns(Errorf("initial page load", ErrorsNew("load")))
          /\ UNCHANGED authenticated
    /\ UNCHANGED <<variant, login, serverUp, tabs, nextTab, gPage, mu, reqVars,
                   files, nextGuid>>

\* the loop condition without the login flag
LoopCondBounded == try < MaxTries

\* the loop condition with <= for <
LoopCondInclusive == login \/ try <= MaxTries

\* the loop condition: *login || try < 60
LoopCond == login \/ try < MaxTries

\* the test that the home tab is on the main photos page
IsAuthenticatedURL(url) ==
    IF variant = 1 THEN HasPrefix(url, gphotosURL) ELSE url = gphotosURL

\* if try == 0 && !*login: the progress message of the bounded mode is due
FirstTryMessage == try = 0 /\ ~login

\* a failed g.page.Info() that leaves the loop instead of continuing
PollInfoFailsBreaks ==
    /\ mainPc = "loop"
    /\ LoopCond
    /\ login => polls < MaxLoginPolls
    /\ polls' = polls + 1
    /\ infoErrs' = infoErrs + 1
    /\ mainPc' = "afterLoop"
    /\ UNCHANGED <<try, authenticated, matchedAt, startErr, loginMsgs, notAuthMsgs>>
    /\ UNCHANGED <<variant, login, serverUp, tabs, nextTab, gPage, mu, reqVars,
                   files, nextGuid>>

\* a failed g.page.Info() that does not count as a try
PollInfoFailsNoCount ==
    /\ mainPc = "loop"
    /\ LoopCond
    /\ login => polls < MaxLoginPolls
    /\ polls' = polls + 1
    /\ infoErrs' = infoErrs + 1
    /\ UNCHANGED <<try, mainPc, authenticated, matchedAt, startErr, loginMsgs, notAuthMsgs>>
    /\ UNCHANGED <<variant, login, serverUp, tabs, nextTab, gPage, mu, reqVars,
                   files, nextGuid>>

\* one iteration whose g.page.Info() fails: continue
PollInfoFails ==
    /\ mainPc = "loop"
    /\ LoopCond
    /\ login => polls < MaxLoginPolls
    /\ polls' = polls + 1
    /\ infoErrs' = infoErrs + 1
    /\ try' = try + 1
    /\ UNCHANGED <<mainPc, authenticated, matchedAt, startErr, loginMsgs, notAuthMsgs>>
    /\ UNCHANGED <<variant, login, serverUp, tabs, nextTab, gPage, mu, reqVars,
                   files, nextGuid>>

\* the iteration without the break
PollInfoNoBreak(url) ==
    /\ mainPc = "loop"
    /\ LoopCond
    /\ login => polls < MaxLoginPolls
    /\ polls' = polls + 1
    /\ try' = try + 1
    /\ IF IsAuthenticatedURL(url)
       THEN /\ authenticated' = TRUE
            /\ matchedAt' = IF matchedAt = 0 THEN polls + 1 ELSE matchedAt
            /\ UNCHANGED notAuthMsgs
       ELSE /\ notAuthMsgs' = IF FirstTryMessage THEN notAuthMsgs + 1 ELSE notAuthMsgs
            /\ UNCHANGED <<authenticated, matchedAt>>
    /\ UNCHANGED <<mainPc, startErr, infoErrs, loginMsgs>>
    /\ UNCHANGED <<variant, login, serverUp, tabs, nextTab, gPage, mu, reqVars,
                   files, nextGuid>>

\* one iteration whose g.page.Info() reports url
PollInfo(url) ==
    /\ mainPc = "loop"
    /\ LoopCond
    /\ login => polls < MaxLoginPolls
    /\ polls' = polls + 1
    /\ IF IsAuthenticatedURL(url)
       THEN /\ authenticated' = TRUE
            /\ matchedAt' = IF matchedAt = 0 THEN polls + 1 ELSE matchedAt
            /\ mainPc' = "afterLoop"
            /\ UNCHANGED <<try, notAuthMsgs>>
       ELSE /\ notAuthMsgs' = IF FirstTryMessage THEN notAuthMsgs + 1 ELSE notAuthMsgs
            /\ try' = try + 1
            /\ UNCHANGED <<mainPc, authenticated, matchedAt>>
    /\ UNCHANGED <<startErr, infoErrs, loginMsgs>>
    /\ UNCHANGED <<variant, login, serverUp, tabs, nextTab, gPage, mu, reqVars,
                   files, nextGuid>>

\* the loop condition fails
LoopExit ==
    /\ mainPc = "loop"
    /\ ~LoopCond
    /\ mainPc' = "afterLoop"
    /\ UNCHANGED <<authVars, startErr>>
    /\ UNCHANGED <<variant, login, serverUp, tabs, nextTab, gPage, mu, reqVars,
                   files, nextGuid>>

\* errors.New("browser is not logged in - rerun with the -login flag")
NotLoggedInErr == ErrorsNew("browser is not logged in")

\* if !authenticated { return errors.New(...) }; return nil
AfterLoop ==
    /\ mainPc = "afterLoop"
    /\ IF ~authenticated
       THEN StartBrowserReturns(NotLoggedInErr)
       ELSE StartBrowserReturns(NilErr)
    /\ UNCHANGED authenticated
    /\ UNCHANGED <<variant, login, serverUp, tabs, nextTab, gPage, mu, reqVars,
                   files, nextGuid>>

\* New ignoring the error of startBrowser
NewProceedsAlways == TRUE

\* New: the check of startBrowser's error; main exits on an error of New
NewProceeds == startErr = NilErr

NewCheckErr ==
    /\ mainPc = "New"
    /\ mainPc' = IF NewProceeds THEN "startServer" ELSE "exit"
    /\ UNCHANGED <<authVars, startErr>>
    /\ UNCHANGED <<variant, login, serverUp, tabs, nextTab, gPage, mu, reqVars,
                   files, nextGuid>>

\* startServer: register the handlers and listen
StartServer ==
    /\ mainPc = "startServer"
    /\ \/ /\ serverUp' = TRUE
          /\ mainPc' = "running"
       \/ /\ mainPc' = "exit"          \* ListenAndServe fails: os.Exit(1)
          /\ UNCHANGED serverUp
    /\ UNCHANGED <<authVars, startErr>>
    /\ UNCHANGED <<variant, login, tabs, nextTab, gPage, mu, reqVars, files, nextGuid>>

-----------------------------------------------------------------------------
(* getID and Download, one instance per inbound request r *)

mainFrame == <<variant, login, mainPc, try, authenticated, polls, matchedAt,
               infoErrs, loginMsgs, notAuthMsgs,
               startErr, serverUp, gPage>>

\* GET /id/{photoID} arrives: getID calls g.Download(photoID)
GetID(r, id) ==
    /\ serverUp
    /\ pc[r] = "idle"
    /\ photoID' = [photoID EXCEPT ![r] = id]
    /\ pc' = [pc EXCEPT ![r] = "lock"]
    /\ UNCHANGED <<mainFrame, tabs, nextTab, mu, page, filter, waiter, netResponse,
                   waitedTab, guid, retPath, retErr, status, body, removed,
                   files, nextGuid>>

\* Lock without waiting for the mutex to be free
LockNoGuard(r) ==
    /\ pc[r] = "lock"
    /\ mu' = r
    /\ pc' = [pc EXCEPT ![r] = "openTab"]
    /\ UNCHANGED <<mainFrame, tabs, nextTab, photoID, page, filter, waiter,
                   netResponse, waitedTab, guid, retPath, retErr, status, body,
                   removed, files, nextGuid>>

\* g.mu.Lock()
Lock(r) ==
    /\ pc[r] = "lock"
    /\ mu = 0
    /\ mu' = r
    /\ pc' = [pc EXCEPT ![r] = "openTab"]
    /\ UNCHANGED <<mainFrame, tabs, nextTab, photoID, page, filter, waiter,
                   netResponse, waitedTab, guid, retPath, retErr, status, body,
                   removed, files, nextGuid>>

\* page.Close() called at the end of Download instead of deferred: error returns skip it
ReturnCloseOnSuccessOnly(r, path, err) ==
    /\ retPath' = [retPath EXCEPT ![r] = path]
    /\ retErr' = [retErr EXCEPT ![r] = err]
    /\ pc' = [pc EXCEPT ![r] = IF page[r] # 0 /\ err = NilErr
                               THEN "deferClose" ELSE "deferUnlock"]

\* g.mu.Unlock() deferred only after the tab is open: the return before it skips it
ReturnNoUnlockBeforeTab(r, path, err) ==
    /\ retPath' = [retPath EXCEPT ![r] = path]
    /\ retErr' = [retErr EXCEPT ![r] = err]
    /\ pc' = [pc EXCEPT ![r] = IF page[r] # 0 THEN "deferClose" ELSE "checkErr"]

\* a return statement of Download: the results are set and the deferred calls
\* run next, page.Close() first when its defer statement has been executed
Return(r, path, err) ==
    /\ retPath' = [retPath EXCEPT ![r] = path]
    /\ retErr' = [retErr EXCEPT ![r] = err]
    /\ pc' = [pc EXCEPT ![r] = IF page[r] # 0 THEN "deferClose" ELSE "deferUnlock"]

\* the tab of an earlier call kept and used again instead of a new tab
OpenTabReused(r) ==
    /\ pc[r] = "openTab"
    /\ LET old == { page[q] : q \in Reqs } \ {0}
       IN  IF old = {}
           THEN /\ page' = [page EXCEPT ![r] = nextTab]
                /\ tabs' = tabs \cup {nextTab}
                /\ nextTab' = nextTab + 1
           ELSE /\ page' = [page EXCEPT ![r] = CHOOSE t \in old : TRUE]
                /\ tabs' = tabs \cup {CHOOSE t \in old : TRUE}
                /\ UNCHANGED nextTab
    /\ pc' = [pc EXCEPT ![r] = IF variant = 1 THEN "waitDownload" ELSE "eachEvent"]
    /\ UNCHANGED <<retPath, retErr>>
    /\ UNCHANGED <<mainFrame, mu, photoID, filter, waiter, netResponse, waitedTab,
                   guid, status, body, removed, files, nextGuid>>

\* page, err := g.browser.Page(proto.TargetCreateTarget{})
OpenTab(r) ==
    /\ pc[r] = "openTab"
    /\ \/ /\ page' = [page EXCEPT ![r] = nextTab]
          /\ tabs' = tabs \cup {nextTab}
          /\ nextTab' = nextTab + 1
          /\ pc' = [pc EXCEPT ![r] = IF variant = 1 THEN "waitDownload" ELSE "eachEvent"]
          /\ UNCHANGED <<retPath, retErr>>
       \/ /\ Return(r, NoPath, Errorf("failed to open browser tab for photo", ErrorsNew("page")))
          /\ UNCHANGED <<page, tabs, nextTab>>
    /\ UNCHANGED <<mainFrame, mu, photoID, filter, waiter, netResponse, waitedTab,
                   guid, status, body, removed, files, nextGuid>>

\* variant 2: waitNetwork := page.EachEvent(...)
EachEvent(r) ==
    /\ pc[r] = "eachEvent"
    /\ filter' = [filter EXCEPT ![r] = TRUE]
    /\ pc' = [pc EXCEPT ![r] = "navigate"]
    /\ UNCHANGED <<mainFrame, tabs, nextTab, mu, photoID, page, waiter, netResponse,
                   waitedTab, guid, retPath, retErr, status, body, removed,
                   files, nextGuid>>

\* variant 1: wait, err := page.WaitDownload(), before navigating;
\* variant 2: wait := g.browser.WaitDownload(downloadDir), after the status check
WaitDownload(r) ==
    /\ pc[r] = "waitDownload"
    /\ \/ /\ waiter' = [waiter EXCEPT ![r] = TRUE]
          /\ pc' = [pc EXCEPT ![r] = IF variant = 1 THEN "navigate" ELSE "keyPress"]
          /\ UNCHANGED <<retPath, retErr>>
       \/ /\ variant = 1
          /\ Return(r, NoPath, Errorf("failed to set up download waiter", ErrorsNew("waiter")))
          /\ UNCHANGED waiter
    /\ UNCHANGED <<mainFrame, tabs, nextTab, mu, photoID, page, filter, netResponse,
                   waitedTab, guid, status, body, removed, files, nextGuid>>

\* err = page.Navigate(url)
Navigate(r) ==
    /\ pc[r] = "navigate"
    /\ \/ /\ pc' = [pc EXCEPT ![r] = "waitLoad"]
          /\ UNCHANGED <<retPath, retErr>>
       \/ Return(r, NoPath, Errorf("failed to navigate to photo", ErrorsNew("navigate")))
    /\ UNCHANGED <<mainFrame, tabs, nextTab, mu, photoID, page, filter, waiter,
                   netResponse, waitedTab, guid, status, body, removed, files,
                   nextGuid>>

\* the error Download returns when the load wait fails
LoadErr == Errorf("gphoto page load", ErrorsNew("load"))

\* the tab Download waits on for the load: variant 1 page.WaitLoad(),
\* variant 2 g.page.WaitLoad()
WaitLoadTab(r) == IF variant = 1 THEN page[r] ELSE gPage

WaitLoad(r) ==
    /\ pc[r] = "waitLoad"
    /\ waitedTab' = [waitedTab EXCEPT ![r] = WaitLoadTab(r)]
    /\ \/ /\ pc' = [pc EXCEPT ![r] = IF variant = 1 THEN "keyPress" ELSE "waitNetwork"]
          /\ UNCHANGED <<retPath, retErr>>
       \/ Return(r, NoPath, LoadErr)
    /\ UNCHANGED <<mainFrame, tabs, nextTab, mu, photoID, page, filter, waiter,
                   netResponse, guid, status, body, removed, files, nextGuid>>

\* URLs of the network responses the tab can receive
NetURLs(r) == { gphotoURL \o <<photoID[r]>>,
                gphotoURLReal \o <<"realID">>,
                <<"photos.google.com", "_", "batchexecute">>,
                <<"lh3.googleusercontent.com", "pw">> }

\* the EachEvent callback: TRUE when the event is the one waited for
IsPhotoResponse(url) ==
    HasPrefix(url, gphotoURLReal) \/ HasPrefix(url, gphotoURL)

\* variant 2: waitNetwork() hands one event to the callback
WaitNetworkEvent(r, url, st) ==
    /\ pc[r] = "waitNetwork"
    /\ filter[r]
    /\ IF IsPhotoResponse(url)
       THEN /\ netResponse' = [netResponse EXCEPT ![r] =
                                  [recv |-> TRUE, url |-> url, status |-> st]]
            /\ pc' = [pc EXCEPT ![r] = "checkResponse"]
       ELSE UNCHANGED <<netResponse, pc>>
    /\ UNCHANGED <<mainFrame, tabs, nextTab, mu, photoID, page, filter, waiter,
                   waitedTab, guid, retPath, retErr, status, body, removed,
                   files, nextGuid>>

\* variant 2: the event stream ends before the callback returned true
WaitNetworkEnds(r) ==
    /\ pc[r] = "waitNetwork"
    /\ pc' = [pc EXCEPT ![r] = "checkResponse"]
    /\ UNCHANGED <<mainFrame, tabs, nextTab, mu, photoID, page, filter, waiter,
                   netResponse, waitedTab, guid, retPath, retErr, status, body,
                   removed, files, nextGuid>>

\* the status formatted into the message (%v) instead of wrapped (%w)
FetchFailedNoWrap(st) == ErrorsNew("gphoto fetch failed: HTTP Error")

\* the error Download returns for a matched response that is not 200
FetchFailed(st) == Errorf("gphoto fetch failed", HttpError(st))

\* netResponse == nil reported as an upstream 404
NoResponseErrAs404 == Errorf("gphoto fetch failed", HttpError(StatusNotFound))

\* the error Download returns when netResponse == nil
NoResponseErr == ErrorsNew("did not receive the expected network response for the photo")

\* variant 2: if netResponse == nil {...}; if netResponse.Response.Status != 200 {...}
CheckResponse(r) ==
    /\ pc[r] = "checkResponse"
    /\ IF ~netResponse[r].recv
       THEN Return(r, NoPath, NoResponseErr)
       ELSE IF netResponse[r].status # StatusOK
       THEN Return(r, NoPath, FetchFailed(netResponse[r].status))
       ELSE /\ pc' = [pc EXCEPT ![r] = "waitDownload"]
            /\ UNCHANGED <<retPath, retErr>>
    /\ UNCHANGED <<mainFrame, tabs, nextTab, mu, photoID, page, filter, waiter,
                   netResponse, waitedTab, guid, status, body, removed, files,
                   nextGuid>>

\* err = page.KeyActions().Press(input.ShiftLeft).Type('D').Do()
KeyPress(r) ==
    /\ pc[r] = "keyPress"
    /\ \/ /\ pc' = [pc EXCEPT ![r] = "wait"]
          /\ UNCHANGED <<retPath, retErr>>
       \/ Return(r, NoPath, Errorf("failed to send download keypress", ErrorsNew("key")))
    /\ UNCHANGED <<mainFrame, tabs, nextTab, mu, photoID, page, filter, waiter,
                   netResponse, waitedTab, guid, status, body, removed, files,
                   nextGuid>>

\* info := wait(): the browser reports a finished download under a fresh GUID;
\* the file of that name is in downloadDir, or it is not
Wait(r) ==
    /\ pc[r] = "wait"
    /\ waiter[r]
    /\ guid' = [guid EXCEPT ![r] = nextGuid]
    /\ nextGuid' = nextGuid + 1
    /\ \/ files' = files \cup {nextGuid}
       \/ UNCHANGED files
    /\ pc' = [pc EXCEPT ![r] = "stat"]
    /\ UNCHANGED <<mainFrame, tabs, nextTab, mu, photoID, page, filter, waiter,
                   netResponse, waitedTab, retPath, retErr, status, body, removed>>

\* path := filepath.Join(downloadDir, info.GUID)
DownloadPath(r) == Join(downloadDir, guid[r])

\* the error of os.Stat ignored: the path is returned whether the file is there or not
StatIgnoresErr(r) ==
    /\ pc[r] = "stat"
    /\ Return(r, DownloadPath(r), NilErr)
    /\ UNCHANGED <<mainFrame, tabs, nextTab, mu, photoID, page, filter, waiter,
                   netResponse, waitedTab, guid, status, body, removed, files,
                   nextGuid>>

\* fi, err := os.Stat(path); return "", err or return path, nil
Stat(r) ==
    /\ pc[r] = "stat"
    /\ IF FileExists(DownloadPath(r))
       THEN Return(r, DownloadPath(r), NilErr)
       ELSE Return(r, NoPath, Errorf("download failed, file not found", ErrorsNew("stat")))
    /\ UNCHANGED <<mainFrame, tabs, nextTab, mu, photoID, page, filter, waiter,
                   netResponse, waitedTab, guid, status, body, removed, files,
                   nextGuid>>

\* deferred: page.Close()
DeferClose(r) ==
    /\ pc[r] = "deferClose"
    /\ tabs' = tabs \ {page[r]}
    /\ pc' = [pc EXCEPT ![r] = "deferUnlock"]
    /\ UNCHANGED <<mainFrame, nextTab, mu, photoID, page, filter, waiter,
                   netResponse, waitedTab, guid, retPath, retErr, status, body,
                   removed, files, nextGuid>>

\* Unlock written at the end of Download instead of deferred: skipped on error returns
UnlockOnSuccessOnly(r) ==
    /\ pc[r] = "deferUnlock"
    /\ mu' = IF retErr[r] = NilErr THEN 0 ELSE mu
    /\ pc' = [pc EXCEPT ![r] = "checkErr"]
    /\ UNCHANGED <<mainFrame, tabs, nextTab, photoID, page, filter, waiter,
                   netResponse, waitedTab, guid, retPath, retErr, status, body,
                   removed, files, nextGuid>>

\* deferred: g.mu.Unlock(); Download has returned to getID
DeferUnlock(r) ==
    /\ pc[r] = "deferUnlock"
    /\ mu' = 0
    /\ pc' = [pc EXCEPT ![r] = "checkErr"]
    /\ UNCHANGED <<mainFrame, tabs, nextTab, photoID, page, filter, waiter,
                   netResponse, waitedTab, guid, retPath, retErr, status, body,
                   removed, files, nextGuid>>

\* a type assertion on err itself instead of errors.As: wrapped errors are missed
ErrorStatusNoUnwrap(err) ==
    IF err # <<>> /\ Head(err).kind = "httpError"
    THEN Head(err).code ELSE StatusInternalServerError

\* the status getID writes for an error of Download
ErrorStatus(err) ==
    IF ErrorsAs(err) # 0 THEN ErrorsAs(err) ELSE StatusInternalServerError

\* getID calling Download again after an error
CheckErrRetries(r) ==
    /\ pc[r] = "checkErr"
    /\ IF retErr[r] # NilErr
       THEN pc' = [pc EXCEPT ![r] = "lock"]
       ELSE pc' = [pc EXCEPT ![r] = "serveFile"]
    /\ UNCHANGED <<mainFrame, tabs, nextTab, mu, photoID, page, filter, waiter,
                   netResponse, waitedTab, guid, retPath, retErr, status, body,
                   removed, files, nextGuid>>

\* getID: if err != nil { w.WriteHeader(...); return }
CheckErr(r) ==
    /\ pc[r] = "checkErr"
    /\ IF retErr[r] # NilErr
       THEN /\ status' = [status EXCEPT ![r] = ErrorStatus(retErr[r])]
            /\ pc' = [pc EXCEPT ![r] = "done"]
       ELSE /\ pc' = [pc EXCEPT ![r] = "serveFile"]
            /\ UNCHANGED status
    /\ UNCHANGED <<mainFrame, tabs, nextTab, mu, photoID, page, filter, waiter,
                   netResponse, waitedTab, guid, retPath, retErr, body, removed,
                   files, nextGuid>>

\* http.ServeFile(w, r, path): the file is streamed with 200, or 404 when missing
ServeFile(r) ==
    /\ pc[r] = "serveFile"
    /\ IF FileExists(retPath[r])
       THEN /\ status' = [status EXCEPT ![r] = StatusOK]
            /\ body' = [body EXCEPT ![r] = retPath[r][2]]
       ELSE /\ status' = [status EXCEPT ![r] = StatusNotFound]
            /\ UNCHANGED body
    /\ pc' = [pc EXCEPT ![r] = "remove"]
    /\ UNCHANGED <<mainFrame, tabs, nextTab, mu, photoID, page, filter, waiter,
                   netResponse, waitedTab, guid, retPath, retErr, removed, files,
                   nextGuid>>

\* os.Remove called on the file name without its directory: nothing is removed
RemoveWrongPath(r) ==
    /\ pc[r] = "remove"
    /\ pc' = [pc EXCEPT ![r] = "done"]
    /\ UNCHANGED <<mainFrame, tabs, nextTab, mu, photoID, page, filter, waiter,
                   netResponse, waitedTab, guid, retPath, retErr, status, body,
                   removed, files, nextGuid>>

\* os.RemoveAll(downloadDir) in place of os.Remove(path)
RemoveAllFiles(r) ==
    /\ pc[r] = "remove"
    /\ files' = {}
    /\ removed' = [removed EXCEPT ![r] = retPath[r]]
    /\ pc' = [pc EXCEPT ![r] = "done"]
    /\ UNCHANGED <<mainFrame, tabs, nextTab, mu, photoID, page, filter, waiter,
                   netResponse, waitedTab, guid, retPath, retErr, status, body,
                   nextGuid>>

\* deferred in getID: os.Remove(path)
Remove(r) ==
    /\ pc[r] = "remove"
    /\ IF FileExists(retPath[r])
       THEN /\ files' = files \ {retPath[r][2]}
            /\ removed' = [removed EXCEPT ![r] = retPath[r]]
       ELSE UNCHANGED <<files, removed>>
    /\ pc' = [pc EXCEPT ![r] = "done"]
    /\ UNCHANGED <<mainFrame, tabs, nextTab, mu, photoID, page, filter, waiter,
                   netResponse, waitedTab, guid, retPath, retErr, status, body,
                   nextGuid>>

-----------------------------------------------------------------------------
Next ==
    \/ Launch
    \/ Connect
    \/ OpenHomePage
    \/ InitialWaitLoad
    \/ PollInfoFails
    \/ \E url \in HomeURLs : PollInfo(url)
    \/ LoopExit
    \/ AfterLoop
    \/ NewCheckErr
    \/ StartServer
    \/ \E r \in Reqs : \E id \in PhotoIDsOf(r) : GetID(r, id)
    \/ \E r \in Reqs : Lock(r)
    \/ \E r \in Reqs : OpenTab(r)
    \/ \E r \in Reqs : EachEvent(r)
    \/ \E r \in Reqs : WaitDownload(r)
    \/ \E r \in Reqs : Navigate(r)
    \/ \E r \in Reqs : WaitLoad(r)
    \/ \E r \in Reqs : \E url \in NetURLs(r), st \in Statuses : WaitNetworkEvent(r, url, st)
    \/ \E r \in Reqs : WaitNetworkEnds(r)
    \/ \E r \in Reqs : CheckResponse(r)
    \/ \E r \in Reqs : KeyPress(r)
    \/ \E r \in Reqs : Wait(r)
    \/ \E r \in Reqs : Stat(r)
    \/ \E r \in Reqs : DeferClose(r)
    \/ \E r \in Reqs : DeferUnlock(r)
    \/ \E r \in Reqs : CheckErr(r)
    \/ \E r \in Reqs : ServeFile(r)
    \/ \E r \in Reqs : Remove(r)

Spec == Init /\ [][Next]_vars

\* every step of a Download that has the mutex, up to its return
DownloadStep(r) ==
    \/ OpenTab(r)
    \/ EachEvent(r)
    \/ WaitDownload(r)
    \/ Navigate(r)
    \/ WaitLoad(r)
    \/ \E url \in NetURLs(r), st \in Statuses : WaitNetworkEvent(r, url, st)
    \/ WaitNetworkEnds(r)
    \/ CheckResponse(r)
    \/ KeyPress(r)
    \/ Wait(r)
    \/ Stat(r)
    \/ DeferClose(r)
    \/ DeferUnlock(r)

(* The transport answers every wait and every goroutine keeps running (weak *)
(* fairness of the steps); a goroutine blocked in Lock gets the mutex when  *)
(* it is free again and again (strong fairness: sync.Mutex hands the mutex  *)
(* to a waiter that has starved).                                           *)
FairSpec ==
    /\ Spec
    /\ \A r \in Reqs : WF_vars(DownloadStep(r))
    /\ \A r \in Reqs : SF_vars(Lock(r))

-----------------------------------------------------------------------------
(* Properties *)

\* r is between acquiring g.mu and the return of Download
InDownload(r) ==
    pc[r] \in {"openTab", "eachEvent", "waitDownload", "navigate", "waitLoad",
               "waitNetwork", "checkResponse", "keyPress", "wait", "stat",
               "deferClose", "deferUnlock"}

\* Download of r has returned to getID
Returned(r) == pc[r] \in {"checkErr", "serveFile", "remove", "done"}

\* the codes of the httpError layers of an error chain
CarriedCodes(e) == { e[i].code : i \in { j \in DOMAIN e : e[j].kind = "httpError" } }

\* C1: at most one Download call is between acquiring the gate and returning
C1_AtMostOneInDownload ==
    \A r1, r2 \in Reqs : InDownload(r1) /\ InDownload(r2) => r1 = r2

\* a call waits at the gate while another awaits its download
C1_Witness ==
    \E r1, r2 \in Reqs : pc[r1] = "lock" /\ pc[r2] = "wait" /\ mu = r2

\* C2: every Download call that has been made eventually returns, under FairSpec
C2_EveryCallReturns ==
    \A r \in Reqs : (pc[r] = "lock") ~> Returned(r)

\* two calls have returned, one with a path and one with an error, and the one
\* that got its tab later had to pass the gate after the other
C2_Witness ==
    \E r1, r2 \in Reqs :
        /\ Returned(r1) /\ Returned(r2)
        /\ retErr[r1] = NilErr /\ retErr[r2] # NilErr
        /\ page[r1] > page[r2] /\ page[r2] # 0

\* C3: without -login the loop makes at most 60 polls, and startBrowser returns
\* the not-logged-in error exactly when the loop ended unauthenticated, which it
\* does after exactly 60 polls none of which matched
C3_NotLoggedInAfterExactly60 ==
    [][ ~login =>
          /\ polls' <= MaxTries
          /\ (startErr' = NotLoggedInErr /\ startErr = NilErr)
                => (polls = MaxTries /\ matchedAt = 0 /\ mainPc = "afterLoop")
          /\ (mainPc = "afterLoop" /\ ~authenticated)
                => (polls = MaxTries /\ startErr' = NotLoggedInErr) ]_vars

C3_Witness ==
    ~login /\ mainPc = "afterLoop" /\ ~authenticated /\ polls = MaxTries

\* C4: in either mode, when the URL first matches on poll k the loop is left at
\* poll k with authenticated set, startBrowser then returns no error, and no poll
\* is made once a poll has matched
C4_SuccessAtFirstMatch ==
    [][ /\ matchedAt' # 0
           => (mainPc' = "afterLoop" /\ authenticated' /\ polls' = matchedAt')
        /\ (mainPc = "afterLoop" /\ authenticated)
           => (startErr' = NilErr /\ mainPc' = "New")
        /\ polls' > polls => (matchedAt = 0 /\ mainPc = "loop") ]_vars

\* the first match comes after polls that did not match
C4_Witness ==
    mainPc = "afterLoop" /\ authenticated /\ matchedAt > 1 /\ polls = matchedAt

\* C5: once the download-completion event names a file F that is in the download
\* directory (in variant 2 after a matching response with status 200), Download
\* returns Join(downloadDir, F) and no error
C5_DownloadReturnsPath ==
    \A r \in Reqs :
        ( /\ pc[r] \in {"deferClose", "deferUnlock", "checkErr", "serveFile", "remove"}
          /\ guid[r] # 0
          /\ guid[r] \in files )
        => /\ retPath[r] = <<downloadDir, guid[r]>>
           /\ retErr[r] = NilErr

C5_Witness ==
    \E r \in Reqs :
        /\ variant = 2
        /\ pc[r] = "checkErr"
        /\ netResponse[r].recv /\ netResponse[r].status = StatusOK
        /\ guid[r] \in files
        /\ retPath[r] = <<downloadDir, guid[r]>>
        /\ retErr[r] = NilErr

C7_FailureStatus ==
    \A r \in Reqs :
        (pc[r] = "done" /\ retErr[r] # NilErr) =>
            /\ IF CarriedCodes(retErr[r]) # {}
               THEN status[r] \in CarriedCodes(retErr[r])
               ELSE status[r] = StatusInternalServerError
            /\ body[r] = 0
            /\ removed[r] = NoPath

C7_Witness ==
    \E r1, r2 \in Reqs :
        /\ pc[r1] = "done" /\ pc[r2] = "done"
        /\ retErr[r1] # NilErr /\ retErr[r2] # NilErr
        /\ status[r1] = 403
        /\ status[r2] = StatusInternalServerError

\* variant 2: the load wait of r succeeded and the event stream ended without a
\* response of either photo URL form
NoMatchObserved(r) ==
    /\ variant = 2
    /\ waitedTab[r] # 0 /\ retErr[r] # LoadErr
    /\ ~netResponse[r].recv

\* C8 as stated: a Download that ended because no matching response was observed
\* is answered with "not found"
C8_Original_NotFound ==
    \A r \in Reqs :
        (pc[r] = "done" /\ NoMatchObserved(r)) => status[r] = StatusNotFound

\* C8 amended: a Download that ended because no matching response was observed
\* returns an error that carries no status, and getID answers it with 500 and
\* no body
C8_NoResponseIs500 ==
    \A r \in Reqs :
        (pc[r] = "done" /\ NoMatchObserved(r))
            => /\ retErr[r] # NilErr
               /\ CarriedCodes(retErr[r]) = {}
               /\ status[r] = StatusInternalServerError
               /\ body[r] = 0

C8_Witness ==
    \E r \in Reqs :
        /\ pc[r] = "done" /\ NoMatchObserved(r)
        /\ retErr[r] = NoResponseErr
        /\ status[r] = StatusInternalServerError

C10_ServerOnlyAfterAuthentication ==
    /\ \A r \in Reqs : pc[r] # "idle" => serverUp
    /\ serverUp => (authenticated /\ startErr = NilErr /\ mainPc = "running")
    /\ mainPc \in {"launch", "connect", "page", "waitLoad", "loop", "afterLoop", "New"}
          => (~serverUp /\ \A r \in Reqs : pc[r] = "idle" /\ status[r] = 0)
    /\ startErr # NilErr => (~serverUp /\ mainPc \in {"New", "exit"})

C10_Witness ==
    /\ serverUp /\ authenticated
    /\ \E r \in Reqs : pc[r] = "done" /\ status[r] = StatusOK

\* C11: with -login the loop condition never fails, the loop is left only by a
\* poll that matched, and startBrowser never returns the not-logged-in error
C11_LoginNeverNotLoggedIn ==
    [][ login =>
          /\ mainPc = "loop" => LoopCond
          /\ (mainPc = "loop" /\ mainPc' # "loop")
                => (authenticated' /\ matchedAt' = polls' /\ mainPc' = "afterLoop")
          /\ startErr' # NotLoggedInErr ]_vars

\* the -login loop is still polling after more polls than the bounded mode makes
C11_Witness ==
    login /\ mainPc = "loop" /\ polls > MaxTries /\ ~authenticated

FreshLocals(r) ==
    /\ page[r] = 0
    /\ ~filter[r] /\ ~waiter[r]
    /\ netResponse[r] = NoResponse
    /\ waitedTab[r] = 0
    /\ guid[r] = 0
    /\ retPath[r] = NoPath /\ retErr[r] = NilErr

\* C13: two Download calls, also with the same identifier, have distinct tabs and
\* distinct result files, and a call starts with fresh locals whatever the calls
\* before it did
C13_IndependentCalls ==
    \A r1, r2 \in Reqs :
        /\ pc[r1] \in {"lock", "openTab"} => FreshLocals(r1)
        /\ (r1 # r2 /\ page[r1] # 0 /\ page[r2] # 0) => page[r1] # page[r2]
        /\ (r1 # r2 /\ guid[r1] # 0 /\ guid[r2] # 0) => guid[r1] # guid[r2]
        /\ (r1 # r2 /\ retPath[r1] # NoPath /\ retPath[r2] # NoPath)
              => retPath[r1] # retPath[r2]
        /\ page[r1] # 0 => page[r1] # gPage

\* two calls with the same identifier, one after the other, both returned a file
C13_Witness ==
    \E r1, r2 \in Reqs :
        /\ r1 # r2 /\ photoID[r1] = photoID[r2]
        /\ pc[r1] = "done" /\ pc[r2] \in {"checkErr", "serveFile"}
        /\ status[r1] = StatusOK /\ retErr[r2] = NilErr
        /\ page[r1] < page[r2]
        /\ retPath[r1] # retPath[r2]

\* C14: once a Download has failed its error and its tab never change, it takes no
\* step of Download again, and the request ends with that failure; a request never
\* gets a second tab
C14_NoRetry ==
    [][ \A r \in Reqs :
          /\ retErr[r] # NilErr
                => /\ retErr'[r] = retErr[r]
                   /\ page'[r] = page[r]
                   /\ pc'[r] \in {"deferClose", "deferUnlock", "checkErr", "done"}
                   /\ (pc[r] = "checkErr" /\ pc'[r] # "checkErr")
                         => (pc'[r] = "done" /\ status'[r] # StatusOK /\ body'[r] = 0)
          /\ page[r] # 0 => page'[r] = page[r]
          /\ pc[r] = "done" => (pc'[r] = "done" /\ status'[r] = status[r]) ]_vars

C14_Witness ==
    \E r \in Reqs :
        /\ pc[r] = "done" /\ retErr[r] # NilErr /\ page[r] # 0
        /\ status[r] = StatusInternalServerError

\* C15 as stated: the load wait of a Download is made on the tab that Download
\* opened, never on the home tab
C15_Original_OnlyEphemeralTab ==
    \A r \in Reqs : waitedTab[r] # 0 => (waitedTab[r] = page[r] /\ waitedTab[r] # gPage)

\* C16 as stated: the key press is dispatched only after a matching response with
\* status 200, and a Download without one registers no download waiter
C16_Original_KeyPressAfter200 ==
    \A r \in Reqs :
        /\ pc[r] = "wait" => (netResponse[r].recv /\ netResponse[r].status = StatusOK)
        /\ (waiter[r] /\ pc[r] # "waitDownload")
              => (netResponse[r].recv /\ netResponse[r].status = StatusOK)

\* C17 as stated: a tab that has been navigated has its network filter registered,
\* the key press comes after the download waiter, and the filter holds one response
\* of either photo URL form
C17_Original_ListenersFirst ==
    \A r \in Reqs :
        /\ pc[r] \in {"waitLoad", "waitNetwork", "checkResponse", "keyPress", "wait", "stat"}
              => filter[r]
        /\ pc[r] \in {"wait", "stat"} => waiter[r]
        /\ netResponse[r].recv => (filter[r] /\ IsPhotoResponse(netResponse[r].url))

\* C18: a failed read of the home tab's URL leaves startBrowser in the loop with no
\* error, and a poll that matches after failed reads ends in success
C18_FailedReadContinues ==
    [][ /\ infoErrs' > infoErrs
           => (mainPc' = "loop" /\ startErr' = startErr /\ authenticated' = authenticated)
        /\ (mainPc = "afterLoop" /\ authenticated /\ infoErrs > 0)
           => (startErr' = NilErr /\ mainPc' = "New") ]_vars

C18_Witness ==
    mainPc = "afterLoop" /\ authenticated /\ infoErrs > 0 /\ matchedAt = polls

\* the download event of r named a file that is not in the download directory
FileMissing(r) ==
    /\ pc[r] \in {"deferClose", "deferUnlock", "checkErr", "serveFile", "remove", "done"}
    /\ guid[r] # 0 /\ guid[r] \notin files
    /\ removed[r] = NoPath

\* C19: when the download event names a file that is not in the download
\* directory, Download returns an error with no status and an empty path, and getID
\* answers 500, streams nothing and removes nothing
C19_MissingFileIs500 ==
    \A r \in Reqs :
        FileMissing(r) =>
            /\ retErr[r] # NilErr /\ CarriedCodes(retErr[r]) = {}
            /\ retPath[r] = NoPath
            /\ pc[r] \notin {"serveFile", "remove"}
            /\ pc[r] = "done" => (status[r] = StatusInternalServerError /\ body[r] = 0)

C19_Witness ==
    \E r \in Reqs :
        /\ pc[r] = "done" /\ FileMissing(r)
        /\ status[r] = StatusInternalServerError

\* C20 as stated: without -login the "Not authenticated" message is logged exactly
\* once when the first poll did not authenticate and never otherwise; with -login the
\* "Please log in" message is logged once before the first poll
C20_Original_MessageOnce ==
    mainPc \in {"loop", "afterLoop"} =>
        /\ login => (loginMsgs = 1 /\ notAuthMsgs = 0)
        /\ ~login => loginMsgs = 0
        /\ (~login /\ polls >= 1) => notAuthMsgs = (IF matchedAt = 1 THEN 0 ELSE 1)
        /\ polls = 0 => notAuthMsgs = 0

\* C21: g.mu is held by r exactly while r is between Lock and the return of
\* Download, it is free whenever no Download is in flight, whether the calls before
\* failed or not, and a request that is done leaves the server running
C21_GateHeldExactlyInDownload ==
    /\ \A r \in Reqs : (mu = r) <=> InDownload(r)
    /\ mu \in Reqs \cup {0}
    /\ (\A r \in Reqs : ~InDownload(r)) => mu = 0
    /\ \A r \in Reqs : Returned(r) => (serverUp /\ mainPc = "running")

\* a request failed and is done, and a later request holds the gate and has
\* downloaded its file
C21_Witness ==
    \E r1, r2 \in Reqs :
        /\ pc[r1] = "done" /\ retErr[r1] # NilErr
        /\ mu = r2 /\ pc[r2] = "stat" /\ guid[r2] \in files
        /\ page[r1] # 0 /\ page[r2] > page[r1]

\* C22: getID serves and removes without holding g.mu, it streams the file of its
\* own Download, a file that a request has still to serve is in the download
\* directory whatever the other requests did, and a request removes its own file
\* and no other request's
C22_ServeAndRemoveOwnFile ==
    \A r1, r2 \in Reqs :
        /\ pc[r1] \in {"serveFile", "remove"} => mu # r1
        /\ pc[r1] \in {"remove", "done"} /\ retErr[r1] = NilErr
              => (body[r1] = guid[r1] /\ status[r1] = StatusOK)
        /\ (pc[r1] \in {"deferClose", "deferUnlock", "checkErr", "serveFile"}
              /\ retPath[r1] # NoPath) => FileExists(retPath[r1])
        /\ removed[r1] # NoPath => removed[r1] = <<downloadDir, guid[r1]>>
        /\ (r1 # r2 /\ removed[r1] # NoPath) => removed[r1] # retPath[r2]

\* one request is about to remove its served file while another, holding the gate,
\* has its downloaded file in the directory
C22_Witness ==
    \E r1, r2 \in Reqs :
        /\ r1 # r2
        /\ pc[r1] = "remove" /\ body[r1] = guid[r1] /\ FileExists(retPath[r1])
        /\ mu = r2 /\ pc[r2] = "stat" /\ guid[r2] \in files

\* C23: without -login every poll, with a failed read or with a URL that does not
\* match, uses up one try, so the loop makes at most 60 polls and cannot go on
\* after them, and a run in which every read failed ends in the not-logged-in error
C23_FailedReadsUseTries ==
    [][ ~login =>
          /\ mainPc = "loop" => (try = polls /\ infoErrs <= polls /\ polls <= MaxTries)
          /\ polls' > polls => (try < MaxTries /\ (try' = try + 1 \/ mainPc' = "afterLoop"))
          /\ infoErrs' > infoErrs => (try' = try + 1 /\ polls' = polls + 1)
          /\ (mainPc = "loop" /\ polls = MaxTries) => (~LoopCond /\ mainPc' = "afterLoop")
          /\ (mainPc = "afterLoop" /\ infoErrs = polls)
                => (polls = MaxTries /\ ~authenticated /\ startErr' = NotLoggedInErr) ]_vars

\* every read of the run failed
C23_Witness ==
    ~login /\ mainPc = "afterLoop" /\ infoErrs = MaxTries /\ polls = MaxTries

====
